---- MODULE Spec2Model ----
(***************************************************************************)
(* A model of src/ConversationalBrowserAgent.py: the Streamlit handlers    *)
(* that create the agent and submit a chat input, and the coroutine        *)
(* ConversationalBrowserAgent.process_user_input, cut at the points where  *)
(* it waits for the outside world (the OpenRouter HTTP call, a browser     *)
(* step, the pacing sleep).                                                *)
(*                                                                         *)
(* A Python str is modelled as a sequence of tokens (TLA+ strings); an     *)
(* f-string is the concatenation of its literal pieces and its values, so  *)
(* "the text contains the password" is "the password is one of its         *)
(* tokens".                                                                *)
(***************************************************************************)
EXTENDS Integers, Sequences, FiniteSets, TLC

VARIABLES
    agent_initialized,     \* st.session_state.agent_initialized
    browser,               \* BrowserController: playwright, context, page, is_initialized
    task_context,          \* ConversationalBrowserAgent.task_context
    state,                 \* ConversationalBrowserAgent.state
    conversation_history,  \* ConversationalBrowserAgent.conversation_history
    pc,                    \* position of process_user_input ("none": no turn in progress)
    user_input,            \* process_user_input's argument
    raw_response,          \* what generate_response returned in this turn
    intent_data,           \* what analyze_intent returned in this turn
    idx,                   \* index of the plan step the loop is at (1-based)
    response_content,      \* local response_content
    screenshot,            \* local screenshot: "None", "" or an image
    extracted_data,        \* local extracted_data
    executed,              \* log: the actions handed to execute_action in this turn
    browser_ops,           \* log: the page operations of the last execute_action call
    last_result,           \* log: the last execute_action call: what the page did, what it returned
    reasoner_calls,        \* log: number of generate_response calls in this turn
    last_request,          \* log: the messages of the last request to the Reasoner
    turn_result,           \* log: how the last turn ended and the message it returned
    provider,              \* log: how the provider call of this turn ended ("none": no call)
    slept,                 \* log: the durations of the asyncio.sleep calls of this turn
    captures,              \* log: the take_screenshot calls of this turn and what they returned
    turns                  \* number of turns started

vars == <<agent_initialized, browser, task_context, state, conversation_history,
          pc, user_input, raw_response, intent_data, idx, response_content,
          screenshot, extracted_data, executed, browser_ops, last_result,
          reasoner_calls, last_request, turn_result, provider, slept, captures, turns>>

\* The model's bounds: turns per run, steps per plan.
MaxTurns == 1
MaxSteps == 2

\* BrowserAction.delay's default, in seconds.
DefaultDelay == 1
\* analyze_intent passes the last 5 history entries.
HistoryWindow == 5

-----------------------------------------------------------------------------
(* AgentState *)
IDLE == "idle"
THINKING == "thinking"
ACTING == "acting"
WAITING_FOR_INPUT == "waiting_for_input"
COMPLETED == "completed"
ERROR == "error"
AgentState == {IDLE, THINKING, ACTING, WAITING_FOR_INPUT, COMPLETED, ERROR}

-----------------------------------------------------------------------------
(* Strings of the program *)

\* The five targets process_user_input substitutes stored values into.
EmailLocator == "input#identifierId"
PasswordLocator == "input[type='password']"
ToLocator == "input[aria-label='To']"
SubjectLocator == "input[aria-label='Subject']"
BodyLocator == "div[aria-label='Message Body']"
SensitiveLocators ==
    {EmailLocator, PasswordLocator, ToLocator, SubjectLocator, BodyLocator}

\* The two markers process_user_input puts before a step's outcome line
\* (a check mark and a cross in the source).
SuccessMarker == "\n\n(check) "
FailMarker == "\n\n(cross) Failed: "
ExtractedHeader == "\n\n(clipboard) Extracted Data:\n"

CredentialsPrompt ==
    <<"Please provide your Gmail address and password (use a test account only) to proceed with sending an email.">>
DetailsPrompt ==
    <<"Please provide the recipient's email, subject, and body. Example: ...">>
ApiErrorText == <<"I apologize, but I'm having trouble processing your request right now.">>
ApiExceptionText == <<"I encountered an error while processing your request.">>
ClarifyInfo == "Please clarify your request with more details."
ClarifyResponse ==
    "I'm sorry, I didn't understand your request. Could you provide more details?"
SystemPrompt == <<"You are an AI browser automation agent. ...">>

\* The kinds execute_action dispatches on, and those followed by a screenshot.
ActionTypes == {"navigate", "click", "type", "scroll", "wait", "screenshot",
                "select", "extract", "switch_frame"}
SnapshotTypes == {"navigate", "click", "type", "select", "switch_frame"}

-----------------------------------------------------------------------------
(* Sequences of tokens *)

Contains(s, tok) == \E i \in 1..Len(s) : s[i] = tok

Count(s, tok) == Cardinality({i \in 1..Len(s) : s[i] = tok})

RECURSIVE Join(_, _)
\* sep.join(parts), parts a sequence of token sequences
Join(parts, sep) ==
    IF parts = <<>> THEN <<>>
    ELSE IF Len(parts) = 1 THEN parts[1]
    ELSE parts[1] \o <<sep>> \o Join(Tail(parts), sep)

\* s[-n:]
LastN(s, n) == IF Len(s) <= n THEN s ELSE SubSeq(s, Len(s) - n + 1, Len(s))

\* str.lower() of one token
Lower(tok) ==
    CASE tok = "Send" -> "send"
      [] tok = "Email" -> "email"
      [] tok = "To" -> "to"
      [] tok = "Subject" -> "subject"
      [] tok = "Body" -> "body"
      [] OTHER -> tok

\* "send email" in user_input.lower(): the words are separated by one space
HasSendEmail(u) ==
    \E i \in 1..(Len(u) - 1) : Lower(u[i]) = "send" /\ Lower(u[i + 1]) = "email"

\* Tokens the pattern [\w\.-]+@[\w\.-]+ matches, and quoted tokens with the
\* text between their quotes.
Addresses == {"a@b.com", "c@d.org"}
Quoted == {"'Meeting'", "'Hi'", "'Lunch'", "'Bye'"}
Unquote(tok) ==
    CASE tok = "'Meeting'" -> "Meeting"
      [] tok = "'Hi'" -> "Hi"
      [] tok = "'Lunch'" -> "Lunch"
      [] tok = "'Bye'" -> "Bye"
      [] OTHER -> tok

\* re.search(key\s+<value>, user_input): the positions where the (case
\* sensitive) key is followed by a value of the wanted shape; the first wins.
Matches(u, key, shape) ==
    {i \in 1..(Len(u) - 1) : u[i] = key /\ u[i + 1] \in shape}
FirstMatch(u, key, shape) ==
    LET m == Matches(u, key, shape)
        i == CHOOSE j \in m : \A k \in m : j <= k
    IN u[i + 1]

-----------------------------------------------------------------------------
(* The Reasoner's payload and the plan *)

\* One entry of a payload's "actions": a JSON object whose keys may be absent.
ActionData(has_type, action_type, target, text, delay) ==
    [has_type |-> has_type, action_type |-> action_type, target |-> target,
     text |-> text, description |-> "step", delay |-> delay]

\* A text that is not JSON, a JSON value that is not an object, a JSON object.
TextPayload(text) ==
    [tag |-> "text", text |-> text, has_response |-> FALSE, response |-> "",
     requires_info |-> <<>>, has_actions |-> FALSE, actions |-> <<>>]
ListPayload ==
    [tag |-> "list", text |-> <<>>, has_response |-> FALSE, response |-> "",
     requires_info |-> <<>>, has_actions |-> FALSE, actions |-> <<>>]
ObjectPayload(has_response, response, requires_info, has_actions, actions) ==
    [tag |-> "object", text |-> <<>>, has_response |-> has_response,
     response |-> response, requires_info |-> requires_info,
     has_actions |-> has_actions, actions |-> actions]

\* The steps the modelled Reasoner builds its plans from: a step on a target
\* that is not substituted, a step on the password locator, a step of a kind
\* execute_action does not know, and an entry without "action_type".
StepPool ==
    {ActionData(TRUE, "navigate", "https://mail.google.com", "typed", 2),
     ActionData(TRUE, "type", PasswordLocator, "typed", 1),
     ActionData(TRUE, "hover", "#menu", "", 1),
     ActionData(FALSE, "", "#btn", "", 1)}

RECURSIVE SeqsUpTo(_, _)
\* the sequences over S of length at most n
SeqsUpTo(S, n) ==
    IF n = 0 THEN {<<>>}
    ELSE LET shorter == SeqsUpTo(S, n - 1)
         IN shorter \cup {Append(s, x) : s \in shorter, x \in S}

Plans == SeqsUpTo(StepPool, MaxSteps)

\* What the provider may answer with status 200.
Payloads ==
    {TextPayload(<<"Sure, I will do that.">>), ListPayload}
    \cup {ObjectPayload(TRUE, "On it.", ri, TRUE, p) :
            ri \in {<<>>, <<"email subject">>}, p \in Plans}
    \cup {ObjectPayload(FALSE, "", ri, TRUE, <<>>) :
            ri \in {<<>>, <<"email subject">>}}
    \cup {ObjectPayload(TRUE, "On it.", <<>>, FALSE, <<>>)}

\* requests.post's outcomes: a status-200 answer, another status, an exception.
ProviderOutcomes ==
    {[kind |-> "ok", body |-> b] : b \in Payloads}
    \cup {[kind |-> "http_error", body |-> ListPayload],
          [kind |-> "exception", body |-> ListPayload]}

\* OpenRouterClient.generate_response
generate_response(outcome) ==
    CASE outcome.kind = "ok" -> outcome.body
      [] outcome.kind = "http_error" -> TextPayload(ApiErrorText)
      [] OTHER -> TextPayload(ApiExceptionText)

\* The plan analyze_intent returns when json.loads raises.
FallbackPlan == ObjectPayload(TRUE, ClarifyResponse, <<ClarifyInfo>>, TRUE, <<>>)

\* A variant of analyze_intent without the except branch around json.loads.
analyze_intent_no_fallback(response) == response

\* OpenRouterClient.analyze_intent, from the response on: json.loads and the
\* fallback; any JSON value is returned as it is.
analyze_intent(response) ==
    IF response.tag = "text" THEN FallbackPlan ELSE response

\* A variant of the request that sends the whole history.
RequestMessagesWholeHistory(u, history) ==
    <<[role |-> "system", content |-> SystemPrompt],
      [role |-> "user", content |-> <<"User request: ">> \o u]>> \o history

\* The messages analyze_intent sends: the system prompt, the request, then the
\* last entries of the history (which already holds the current utterance).
RequestMessages(u, history) ==
    <<[role |-> "system", content |-> SystemPrompt],
      [role |-> "user", content |-> <<"User request: ">> \o u]>>
    \o LastN(history, HistoryWindow)

-----------------------------------------------------------------------------
(* task_context *)

NoCredentials == [present |-> FALSE, email |-> "", password |-> ""]
NoDetails == [present |-> FALSE, recipient |-> "", subject |-> "", body |-> ""]
EmptyContext == [email_credentials |-> NoCredentials, email_details |-> NoDetails]

\* What the user may type in the sidebar's two Gmail fields.
GmailInputs == {"", "me@gmail.com"}
PasswordInputs == {"", "hunter2"}

\* BrowserAgentApp.run: the credentials are kept when both fields are filled.
StoredCredentials(gmail_email, gmail_password) ==
    IF gmail_email # "" /\ gmail_password # ""
    THEN [present |-> TRUE, email |-> gmail_email, password |-> gmail_password]
    ELSE NoCredentials

\* A variant of the first check that forgets .lower().
NeedsCredentialsCaseSensitive(u, tc) ==
    /\ \E i \in 1..(Len(u) - 1) : u[i] = "send" /\ u[i + 1] = "email"
    /\ ~tc.email_credentials.present

\* process_user_input, the first check: the trigger without credentials.
NeedsCredentials(u, tc) ==
    HasSendEmail(u) /\ ~tc.email_credentials.present

\* A variant of the second check that forgets .lower().
ParsesDetailsCaseSensitive(u, tc) ==
    /\ \E i \in 1..(Len(u) - 1) : u[i] = "send" /\ u[i + 1] = "email"
    /\ tc.email_credentials.present

\* process_user_input, the second check: the trigger with credentials.
ParsesDetails(u, tc) ==
    HasSendEmail(u) /\ tc.email_credentials.present

DetailsFound(u) ==
    /\ Matches(u, "to", Addresses) # {}
    /\ Matches(u, "subject", Quoted) # {}
    /\ Matches(u, "body", Quoted) # {}

ParsedDetails(u) ==
    [present |-> TRUE,
     recipient |-> FirstMatch(u, "to", Addresses),
     subject |-> Unquote(FirstMatch(u, "subject", Quoted)),
     body |-> Unquote(FirstMatch(u, "body", Quoted))]

\* A variant of the assignment that keeps the details once there are some.
StoreDetailsOnce(tc, u) ==
    IF tc.email_details.present THEN tc
    ELSE [tc EXCEPT !.email_details = ParsedDetails(u)]

\* A variant of the assignment that rebuilds the whole task context.
StoreDetailsAlone(tc, u) ==
    [email_credentials |-> NoCredentials, email_details |-> ParsedDetails(u)]

\* self.task_context["email_details"] = {...}: the task context after the
\* assignment that follows a successful parse.
StoreDetails(tc, u) == [tc EXCEPT !.email_details = ParsedDetails(u)]

-----------------------------------------------------------------------------
(* BrowserAction and the substitution of stored values *)

\* BrowserAction(action_type=..., target=..., text=..., description=...,
\* value=...): the payload's delay is not passed, so delay is the default.
BrowserAction(action_data) ==
    [action_type |-> action_data.action_type, target |-> action_data.target,
     text |-> action_data.text, description |-> action_data.description,
     delay |-> DefaultDelay]

\* Whether the override block runs for this turn.
Overrides(u, tc) == HasSendEmail(u) /\ tc.email_credentials.present

\* Whether the override block raises KeyError: it reads
\* task_context["email_details"] by subscript.
SubstituteRaises(action, u, tc) ==
    /\ Overrides(u, tc)
    /\ action.target \in {ToLocator, SubjectLocator, BodyLocator}
    /\ ~tc.email_details.present

\* A variant of the override block with the two credential fields swapped.
SubstituteSwapped(action, u, tc) ==
    IF ~Overrides(u, tc) THEN action
    ELSE CASE action.target = EmailLocator ->
                [action EXCEPT !.text = tc.email_credentials.password]
           [] action.target = PasswordLocator ->
                [action EXCEPT !.text = tc.email_credentials.email]
           [] OTHER -> action

\* A variant of the override block that fills the password into every
\* target it does not know.
SubstituteEverywhere(action, u, tc) ==
    IF ~Overrides(u, tc) THEN action
    ELSE CASE action.target = EmailLocator ->
                [action EXCEPT !.text = tc.email_credentials.email]
           [] action.target = ToLocator ->
                [action EXCEPT !.text = tc.email_details.recipient]
           [] action.target = SubjectLocator ->
                [action EXCEPT !.text = tc.email_details.subject]
           [] action.target = BodyLocator ->
                [action EXCEPT !.text = tc.email_details.body]
           [] OTHER -> [action EXCEPT !.text = tc.email_credentials.password]

\* The override block of process_user_input: the action after it.
Substitute(action, u, tc) ==
    IF ~Overrides(u, tc) THEN action
    ELSE CASE action.target = EmailLocator ->
                [action EXCEPT !.text = tc.email_credentials.email]
           [] action.target = PasswordLocator ->
                [action EXCEPT !.text = tc.email_credentials.password]
           [] action.target = ToLocator ->
                [action EXCEPT !.text = tc.email_details.recipient]
           [] action.target = SubjectLocator ->
                [action EXCEPT !.text = tc.email_details.subject]
           [] action.target = BodyLocator ->
                [action EXCEPT !.text = tc.email_details.body]
           [] OTHER -> action

-----------------------------------------------------------------------------
(* BrowserController *)

NoBrowser ==
    [playwright |-> "none", context |-> "none", page |-> "none",
     is_initialized |-> FALSE, current_frame |-> "None"]

\* BrowserController.initialize, by the call that raises (if any).
InitOutcomes == {"ok", "start_fails", "launch_fails", "new_page_fails", "cookies_fails"}
initialize(outcome) ==
    CASE outcome = "start_fails" -> NoBrowser
      [] outcome = "launch_fails" -> [NoBrowser EXCEPT !.playwright = "started"]
      [] outcome = "new_page_fails" ->
            [NoBrowser EXCEPT !.playwright = "started", !.context = "open"]
      [] OTHER ->
            [playwright |-> "started", context |-> "open", page |-> "open",
             is_initialized |-> TRUE, current_frame |-> "None"]

\* BrowserController.cleanup, by the call that raises (if any): the three
\* closes and the flag are in one try block, so a close that raises skips
\* what follows it; the exception is logged and cleanup returns.
CleanupOutcomes == {"ok", "page_close_fails", "context_close_fails", "stop_fails"}
cleanup(b, outcome) ==
    CASE outcome = "page_close_fails" -> b
      [] outcome = "context_close_fails" -> [b EXCEPT !.page = "closed"]
      [] outcome = "stop_fails" -> [b EXCEPT !.page = "closed", !.context = "closed"]
      [] OTHER ->
            [b EXCEPT !.page = "closed", !.context = "closed",
                      !.playwright = "stopped", !.is_initialized = FALSE]

\* The page operations execute_action awaits for an action, in order.
PageOps(action) ==
    CASE action.action_type = "navigate" -> <<"goto", "wait_for_load_state", "cookies">>
      [] action.action_type = "click" -> <<"wait_for_selector", "click">>
      [] action.action_type = "type" -> <<"wait_for_selector", "fill">>
      [] action.action_type = "scroll" ->
            IF action.target # "" THEN <<"scroll_into_view_if_needed">>
            ELSE <<"evaluate">>
      [] action.action_type = "wait" -> <<"wait_for_timeout">>
      [] action.action_type = "screenshot" -> <<>>
      [] action.action_type = "select" -> <<"wait_for_selector", "select_option">>
      [] action.action_type = "extract" ->
            <<"wait_for_selector", "query_selector", "text_content">>
      [] action.action_type = "switch_frame" -> <<"frame_locator">>
      [] OTHER -> <<>>

\* What the page does during one execute_action call: the operation that
\* raises (0: none) with its message, whether the recovery reload succeeds,
\* and the text of the extracted element.
Reasons == {"Timeout 10000ms exceeded.", "Target page has been closed"}
PageTexts == {"", "Headline"}
NoBehaviour == [fail_at |-> 0, reason |-> "", reload_ok |-> TRUE, text |-> ""]
PageBehaviours(action) ==
    {[fail_at |-> 0, reason |-> "", reload_ok |-> TRUE, text |-> t] :
        t \in IF action.action_type = "extract" THEN PageTexts ELSE {""}}
    \cup {[fail_at |-> k, reason |-> r, reload_ok |-> b, text |-> ""] :
            k \in 1..Len(PageOps(action)), r \in Reasons, b \in BOOLEAN}

\* Every behaviour of the page, for any action.
AllBehaviours ==
    {[fail_at |-> 0, reason |-> "", reload_ok |-> TRUE, text |-> t] : t \in PageTexts}
    \cup {[fail_at |-> k, reason |-> r, reload_ok |-> b, text |-> ""] :
            k \in 1..3, r \in Reasons, b \in BOOLEAN}

\* The behaviours that matter to a call: without a page, or for a kind
\* execute_action does not know, no page operation is reached.
EnabledBehaviours(page, action) ==
    IF page = "none" \/ action.action_type \notin ActionTypes
    THEN {NoBehaviour}
    ELSE PageBehaviours(action)

\* str() of a delay in seconds
FloatStr(d) == IF d = 1 THEN "1.0" ELSE IF d = 2 THEN "2.0" ELSE "0.0"

\* The (True, message) each branch of execute_action returns.
SuccessMessage(action, page_text) ==
    CASE action.action_type = "navigate" -> <<"Navigated to ", action.target>>
      [] action.action_type = "click" -> <<"Clicked on ", action.target>>
      [] action.action_type = "type" ->
            <<"Typed '", action.text, "' into ", action.target>>
      [] action.action_type = "scroll" ->
            IF action.target # "" THEN <<"Scrolled to element ", action.target>>
            ELSE <<"Scrolled to bottom of page">>
      [] action.action_type = "wait" -> <<"Waited for ", FloatStr(action.delay), " seconds">>
      [] action.action_type = "screenshot" -> <<"Screenshot taken">>
      [] action.action_type = "select" ->
            <<"Selected option '", action.text, "' in ", action.target>>
      [] action.action_type = "extract" -> <<"Extracted text: ", page_text>>
      [] OTHER -> <<"Switched to iframe ", action.target>>

\* A variant of the except branch that reloads and then runs the failed
\* operation again.
RecoverAndRetry(reason, reload_ok) ==
    [ops |-> <<"reload", "retry">>,
     success |-> FALSE,
     result |-> IF reload_ok
                THEN <<"Action failed: ", reason, ". Page reloaded for retry.">>
                ELSE <<"Action failed: ", reason, ". Could not recover.">>]

\* What the except branch of execute_action does once an operation raised:
\* the operations it adds to the log and the result it returns.
Recover(reason, reload_ok) ==
    [ops |-> <<"reload">>,
     success |-> FALSE,
     result |-> IF reload_ok
                THEN <<"Action failed: ", reason, ". Page reloaded for retry.">>
                ELSE <<"Action failed: ", reason, ". Could not recover.">>]

\* A variant of execute_action without the check of self.page.
execute_action_unchecked(page, action, b) ==
    IF action.action_type \notin ActionTypes
    THEN [ops |-> <<>>, success |-> FALSE,
          result |-> <<"Unknown action type: ", action.action_type>>]
    ELSE IF b.fail_at = 0
    THEN [ops |-> PageOps(action), success |-> TRUE,
          result |-> SuccessMessage(action, b.text)]
    ELSE [ops |-> SubSeq(PageOps(action), 1, b.fail_at) \o <<"reload">>,
          success |-> FALSE,
          result |-> <<"Action failed: ", b.reason, ". Page reloaded for retry.">>]

\* BrowserController.execute_action: the result and the page operations made.
execute_action(page, action, b) ==
    IF page = "none"
    THEN [ops |-> <<>>, success |-> FALSE, result |-> <<"Browser not initialized">>]
    ELSE IF action.action_type \notin ActionTypes
    THEN [ops |-> <<>>, success |-> FALSE,
          result |-> <<"Unknown action type: ", action.action_type>>]
    ELSE IF b.fail_at = 0
    THEN [ops |-> PageOps(action), success |-> TRUE,
          result |-> SuccessMessage(action, b.text)]
    ELSE LET r == Recover(b.reason, b.reload_ok)
         IN [r EXCEPT !.ops = SubSeq(PageOps(action), 1, b.fail_at) \o r.ops]

\* BrowserController.current_frame after an execute_action call: the
\* switch_frame branch stores the frame locator once frame_locator returned.
SwitchFrame(current_frame, action, success) ==
    IF action.action_type = "switch_frame" /\ success
    THEN action.target
    ELSE current_frame

\* The object the page operations of execute_action are called on: every
\* branch calls self.page, whatever current_frame holds.
OperationContext(current_frame) == "page"

\* The argument of page.wait_for_timeout in the wait branch, in milliseconds.
WaitTimeout(action) == action.delay * 1000

\* BrowserController.take_screenshot
take_screenshot(page, shot_ok) ==
    IF page = "none" THEN ""
    ELSE IF shot_ok THEN "image" ELSE ""

-----------------------------------------------------------------------------
(* The state after construction: the Streamlit session before the agent exists *)

NoPayload == TextPayload(<<>>)
NoResult == [called |-> FALSE, behaviour |-> NoBehaviour, success |-> FALSE, result |-> <<>>]
NoTurn == [kind |-> "none", content |-> <<>>, screenshot |-> "None"]

\* What the user may type in the chat box.
Utterances ==
    {<<"search", "for", "Python", "tutorials">>,
     <<"send", "email", "to", "a@b.com", "subject", "'Meeting'", "body", "'Hi'">>,
     <<"send", "email", "to", "a@b.com", "subject", "'Meeting'">>,
     <<"Send", "Email", "To", "a@b.com">>}

Init ==
    /\ agent_initialized = FALSE
    /\ browser = NoBrowser
    /\ task_context = EmptyContext
    /\ state = IDLE
    /\ conversation_history = <<>>
    /\ pc = "none"
    /\ user_input = <<>>
    /\ raw_response = NoPayload
    /\ intent_data = NoPayload
    /\ idx = 0
    /\ response_content = <<>>
    /\ screenshot = "None"
    /\ extracted_data = <<>>
    /\ executed = <<>>
    /\ browser_ops = <<>>
    /\ last_result = NoResult
    /\ reasoner_calls = 0
    /\ last_request = <<>>
    /\ turn_result = NoTurn
    /\ provider = "none"
    /\ slept = <<>>
    /\ captures = <<>>
    /\ turns = 0

\* The locals and logs of a turn, as a new turn (or a new agent) finds them.
ResetTurn ==
    /\ raw_response' = NoPayload
    /\ intent_data' = NoPayload
    /\ idx' = 0
    /\ response_content' = <<>>
    /\ screenshot' = "None"
    /\ extracted_data' = <<>>
    /\ executed' = <<>>
    /\ browser_ops' = <<>>
    /\ last_result' = NoResult
    /\ provider' = "none"
    /\ slept' = <<>>
    /\ captures' = <<>>

\* The turn returns a ConversationMessage.
Return(content, shot) ==
    /\ pc' = "none"
    /\ turn_result' = [kind |-> "returned", content |-> content, screenshot |-> shot]

\* An exception leaves process_user_input; run_coroutine catches it and the
\* Streamlit script goes on.
Raise ==
    /\ pc' = "none"
    /\ turn_result' = [kind |-> "raised", content |-> <<>>, screenshot |-> "None"]

-----------------------------------------------------------------------------
(* BrowserAgentApp.run: the "Initialize Agent" button, with an API key given *)

InitializeAgent(gmail_email, gmail_password, outcome) ==
    /\ pc = "none"
    /\ agent_initialized' = TRUE
    /\ task_context' =
          [EmptyContext EXCEPT
              !.email_credentials = StoredCredentials(gmail_email, gmail_password)]
    /\ browser' = initialize(outcome)
    /\ state' = IDLE
    /\ conversation_history' = <<>>
    /\ user_input' = <<>>
    /\ ResetTurn
    /\ reasoner_calls' = 0
    /\ last_request' = <<>>
    /\ turn_result' = NoTurn
    /\ UNCHANGED <<pc, turns>>

-----------------------------------------------------------------------------
(* BrowserAgentApp.run: the "Clear Browser Data" button. The agent is        *)
(* dropped (session_state.agent = None): its fields are shown as a new       *)
(* agent's, while browser keeps what became of the dropped controller's      *)
(* resources.                                                                *)

ClearBrowserData(outcome) ==
    /\ pc = "none"
    /\ agent_initialized
    /\ IF browser.is_initialized
       THEN browser' = cleanup(browser, outcome)
       ELSE outcome = "ok" /\ browser' = browser
    /\ agent_initialized' = FALSE
    /\ task_context' = EmptyContext
    /\ state' = IDLE
    /\ conversation_history' = <<>>
    /\ user_input' = <<>>
    /\ ResetTurn
    /\ reasoner_calls' = 0
    /\ last_request' = <<>>
    /\ turn_result' = NoTurn
    /\ UNCHANGED <<pc, turns>>

-----------------------------------------------------------------------------
(* process_user_input *)

\* A variant of the check that never finds missing information.
RequiresInfoIgnored(intent) == FALSE

\* The check after analyze_intent: the plan asks for more information.
RequiresInfo(intent) == intent.requires_info # <<>>

\* A variant of the loop without the break.
AfterStepNoBreak(success) == "sleep"

\* A variant of the loop that goes on without the pacing sleep.
AfterStepNoSleep(success) == IF success THEN "loop" ELSE "finish"

\* Where the loop goes after a step: on to the pacing sleep, or out (break).
AfterStep(success) == IF success THEN "sleep" ELSE "finish"

\* From the chat input to the first suspension: the user message is appended,
\* the two "send email" checks run, and the request to the Reasoner leaves.
SubmitInput(u) ==
    /\ pc = "none"
    /\ agent_initialized
    /\ turns' = turns + 1
    /\ user_input' = u
    /\ conversation_history' =
          Append(conversation_history, [role |-> "user", content |-> u])
    /\ ResetTurn
    /\ IF NeedsCredentials(u, task_context)
       THEN /\ state' = WAITING_FOR_INPUT
            /\ Return(CredentialsPrompt, "None")
            /\ reasoner_calls' = 0
            /\ last_request' = <<>>
            /\ UNCHANGED task_context
       ELSE IF ParsesDetails(u, task_context) /\ ~DetailsFound(u)
       THEN /\ state' = WAITING_FOR_INPUT
            /\ Return(DetailsPrompt, "None")
            /\ reasoner_calls' = 0
            /\ last_request' = <<>>
            /\ UNCHANGED task_context
       ELSE /\ task_context' =
                  IF ParsesDetails(u, task_context)
                  THEN StoreDetails(task_context, u)
                  ELSE task_context
            /\ state' = THINKING
            /\ reasoner_calls' = 1
            /\ last_request' = RequestMessages(u, conversation_history')
            /\ turn_result' = [NoTurn EXCEPT !.kind = "running"]
            /\ pc' = "reasoner"
    /\ UNCHANGED <<agent_initialized, browser>>

\* A chat input, while the conversation is short enough.
StartTurn(u) == turns < MaxTurns /\ SubmitInput(u)

\* The provider answers: generate_response and analyze_intent return, and
\* process_user_input runs up to the first step of the plan.
ReasonerResponds(outcome) ==
    /\ pc = "reasoner"
    /\ LET response == generate_response(outcome)
           intent == analyze_intent(response)
       IN /\ raw_response' = response
          /\ intent_data' = intent
          /\ provider' = outcome.kind
          /\ IF intent.tag # "object"
             THEN \* intent_data.get: a list has no get
                  /\ Raise
                  /\ UNCHANGED <<state, response_content, idx>>
             ELSE IF RequiresInfo(intent)
             THEN /\ state' = WAITING_FOR_INPUT
                  /\ IF intent.has_response
                     THEN Return(<<intent.response>>, "None")
                     ELSE Raise
                  /\ UNCHANGED <<response_content, idx>>
             ELSE /\ state' = ACTING
                  /\ IF ~intent.has_response
                     THEN /\ Raise
                          /\ UNCHANGED <<response_content, idx>>
                     ELSE /\ response_content' = <<intent.response>>
                          /\ idx' = 1
                          /\ pc' = IF intent.has_actions /\ intent.actions # <<>>
                                   THEN "loop" ELSE "finish"
                          /\ UNCHANGED turn_result
    /\ UNCHANGED <<agent_initialized, browser, task_context, conversation_history,
                   user_input, screenshot, extracted_data, executed, browser_ops,
                   last_result, reasoner_calls, last_request, slept, captures,
                   turns>>

\* A variant of the success line without the marker.
SuccessLineBare(action, result) == <<action.description, ": ">> \o result

\* What a successful step adds to the reply.
SuccessLine(action, result) == <<SuccessMarker, action.description, ": ">> \o result

\* What a failed step adds to the reply.
FailureLine(result) == <<FailMarker>> \o result

\* The action the loop builds for step i of the plan and hands to execute_action.
StepAction(i) ==
    Substitute(BrowserAction(intent_data.actions[i]), user_input, task_context)

\* One pass of the loop over the plan's steps, up to the pacing sleep.
ExecStep(b, shot_ok) ==
    /\ pc = "loop"
    /\ LET action_data == intent_data.actions[idx]
           built == BrowserAction(action_data)
           action == StepAction(idx)
           r == execute_action(browser.page, action, b)
       IN IF ~action_data.has_type \/ SubstituteRaises(built, user_input, task_context)
          THEN \* KeyError: action_data["action_type"], task_context["email_details"]
               /\ Raise
               /\ UNCHANGED <<browser, state, response_content, screenshot,
                              extracted_data, executed, browser_ops, last_result,
                              captures>>
          ELSE /\ b \in EnabledBehaviours(browser.page, action)
               /\ executed' = Append(executed,
                      [action_type |-> action.action_type, target |-> action.target,
                       text |-> action.text, delay |-> action.delay,
                       context |-> OperationContext(browser.current_frame),
                       success |-> r.success, result |-> r.result])
               /\ browser_ops' = r.ops
               /\ last_result' = [called |-> TRUE, behaviour |-> b,
                                   success |-> r.success, result |-> r.result]
               /\ browser' = [browser EXCEPT
                      !.current_frame = SwitchFrame(@, action, r.success)]
               /\ pc' = AfterStep(r.success)
               /\ IF r.success
                  THEN /\ response_content' =
                              response_content \o SuccessLine(action, r.result)
                       /\ extracted_data' =
                              IF action.action_type = "extract"
                              THEN Append(extracted_data, r.result)
                              ELSE extracted_data
                       /\ IF action.action_type \in SnapshotTypes
                          THEN LET shot == take_screenshot(browser.page, shot_ok)
                               IN /\ screenshot' = shot
                                  /\ captures' = Append(captures,
                                         [step |-> idx, shot |-> shot])
                          ELSE UNCHANGED <<screenshot, captures>>
                       /\ UNCHANGED state
                  ELSE /\ response_content' = response_content \o FailureLine(r.result)
                       /\ state' = ERROR
                       /\ UNCHANGED <<extracted_data, screenshot, captures>>
               /\ UNCHANGED turn_result
    /\ UNCHANGED <<agent_initialized, task_context, conversation_history,
                   user_input, raw_response, intent_data, idx, reasoner_calls,
                   last_request, provider, slept, turns>>

\* asyncio.sleep(action.delay) is over: the loop goes to the next step.
Sleep ==
    /\ pc = "sleep"
    /\ slept' = Append(slept, StepAction(idx).delay)
    /\ idx' = idx + 1
    /\ pc' = IF idx + 1 <= Len(intent_data.actions) THEN "loop" ELSE "finish"
    /\ UNCHANGED <<agent_initialized, browser, task_context, state,
                   conversation_history, user_input, raw_response, intent_data,
                   response_content, screenshot, extracted_data, executed,
                   browser_ops, last_result, reasoner_calls, last_request,
                   turn_result, provider, captures, turns>>

\* After the loop: the final screenshot, the extracted data, the assistant
\* entry of the history, the state, the returned message.
Finish(shot_ok) ==
    /\ pc = "finish"
    /\ LET final == screenshot \in {"None", ""} /\ browser.is_initialized
           shot == IF final THEN take_screenshot(browser.page, shot_ok)
                   ELSE screenshot
           content == IF extracted_data # <<>>
                      THEN response_content \o <<ExtractedHeader>>
                               \o Join(extracted_data, "\n")
                      ELSE response_content
       IN /\ screenshot' = shot
          /\ captures' = IF final THEN Append(captures, [step |-> 0, shot |-> shot])
                         ELSE captures
          /\ response_content' = content
          /\ conversation_history' =
                Append(conversation_history, [role |-> "assistant", content |-> content])
          /\ state' = IDLE
          /\ Return(content, shot)
    /\ UNCHANGED <<agent_initialized, browser, task_context, user_input,
                   raw_response, intent_data, idx, extracted_data, executed,
                   browser_ops, last_result, reasoner_calls, last_request,
                   provider, slept, turns>>

-----------------------------------------------------------------------------

Next ==
    \/ \E e \in GmailInputs, p \in PasswordInputs, o \in InitOutcomes :
          InitializeAgent(e, p, o)
    \/ \E u \in Utterances : StartTurn(u)
    \/ \E o \in ProviderOutcomes : ReasonerResponds(o)
    \/ \E shot_ok \in BOOLEAN, b \in AllBehaviours : ExecStep(b, shot_ok)
    \/ Sleep
    \/ \E shot_ok \in BOOLEAN : Finish(shot_ok)
    \/ \E o \in CleanupOutcomes : ClearBrowserData(o)

Spec == Init /\ [][Next]_vars

-----------------------------------------------------------------------------
(* A longer conversation: several chat inputs to one agent, answered by     *)
(* plans without steps, so that the history outgrows the Reasoner's window. *)

MaxTalkTurns == 4

TalkUtterances ==
    {<<"search", "for", "Python", "tutorials">>,
     <<"send", "email", "to", "a@b.com", "subject", "'Meeting'", "body", "'Hi'">>,
     <<"send", "email", "to", "c@d.org", "subject", "'Lunch'", "body", "'Bye'">>}

TalkOutcomes ==
    {[kind |-> "ok", body |-> b] :
        b \in {ObjectPayload(TRUE, "On it.", <<>>, TRUE, <<>>),
               ObjectPayload(TRUE, "Which one?", <<"email subject">>, TRUE, <<>>),
               ListPayload}}

\* A chat input of the longer conversation.
TalkTurn(u) == turns < MaxTalkTurns /\ SubmitInput(u)

NextTalk ==
    \/ \E e \in GmailInputs, p \in PasswordInputs : InitializeAgent(e, p, "ok")
    \/ \E u \in TalkUtterances : TalkTurn(u)
    \/ \E o \in TalkOutcomes : ReasonerResponds(o)
    \/ \E shot_ok \in BOOLEAN : Finish(shot_ok)

SpecTalk == Init /\ [][NextTalk]_vars

-----------------------------------------------------------------------------
(* One request answered by plans over the other kinds of step: wait,        *)
(* switch_frame, click, extract, screenshot, scroll, select.                *)

KindPool ==
    {ActionData(TRUE, "wait", "", "", 2),
     ActionData(TRUE, "switch_frame", "iframe#compose", "", 1),
     ActionData(TRUE, "click", "#send", "", 1),
     ActionData(TRUE, "extract", "h1", "", 1),
     ActionData(TRUE, "screenshot", "", "", 1),
     ActionData(TRUE, "scroll", "", "", 1),
     ActionData(TRUE, "select", "#lang", "en", 1)}

KindPlans == SeqsUpTo(KindPool, MaxSteps) \ {<<>>}

KindOutcomes ==
    {[kind |-> "ok", body |-> ObjectPayload(TRUE, "On it.", <<>>, TRUE, p)] :
        p \in KindPlans}

KindUtterances == {<<"search", "for", "Python", "tutorials">>}

NextKinds ==
    \/ \E o \in {"ok", "start_fails"} : InitializeAgent("", "", o)
    \/ \E u \in KindUtterances : StartTurn(u)
    \/ \E o \in KindOutcomes : ReasonerResponds(o)
    \/ \E shot_ok \in BOOLEAN, b \in AllBehaviours : ExecStep(b, shot_ok)
    \/ Sleep
    \/ \E shot_ok \in BOOLEAN : Finish(shot_ok)

SpecKinds == Init /\ [][NextKinds]_vars

-----------------------------------------------------------------------------
(* One request to an agent whose browser may have failed to start, answered *)
(* by a plan of one step of any kind, alone or followed by a click.         *)

EveryKind ==
    {ActionData(TRUE, "navigate", "https://example.com", "", 1),
     ActionData(TRUE, "click", "#send", "", 1),
     ActionData(TRUE, "type", "#q", "Python", 1),
     ActionData(TRUE, "scroll", "", "", 1),
     ActionData(TRUE, "wait", "", "", 2),
     ActionData(TRUE, "screenshot", "", "", 1),
     ActionData(TRUE, "select", "#lang", "en", 1),
     ActionData(TRUE, "extract", "h1", "", 1),
     ActionData(TRUE, "switch_frame", "iframe#compose", "", 1),
     ActionData(TRUE, "hover", "#menu", "", 1)}

EveryKindPlans ==
    {<<a>> : a \in EveryKind}
    \cup {<<a, ActionData(TRUE, "click", "#send", "", 1)>> : a \in EveryKind}

EveryKindOutcomes ==
    {[kind |-> "ok", body |-> ObjectPayload(TRUE, "On it.", <<>>, TRUE, p)] :
        p \in EveryKindPlans}

NextEveryKind ==
    \/ \E o \in InitOutcomes : InitializeAgent("", "", o)
    \/ \E u \in KindUtterances : StartTurn(u)
    \/ \E o \in EveryKindOutcomes : ReasonerResponds(o)
    \/ \E shot_ok \in BOOLEAN, b \in AllBehaviours : ExecStep(b, shot_ok)
    \/ Sleep
    \/ \E shot_ok \in BOOLEAN : Finish(shot_ok)

SpecEveryKind == Init /\ [][NextEveryKind]_vars

-----------------------------------------------------------------------------
(* Several requests to one agent, some of them for an email, answered by    *)
(* plans that fill the recipient, subject and body fields.                  *)

MaxMailTurns == 2

MailUtterances ==
    {<<"search", "for", "Python", "tutorials">>,
     <<"send", "email", "to", "a@b.com", "subject", "'Meeting'", "body", "'Hi'">>,
     <<"send", "email", "to", "c@d.org", "subject", "'Lunch'", "body", "'Bye'">>}

MailPlans ==
    {<<ActionData(TRUE, "type", ToLocator, "typed", 1)>>,
     <<ActionData(TRUE, "type", ToLocator, "typed", 1),
       ActionData(TRUE, "type", SubjectLocator, "typed", 1),
       ActionData(TRUE, "type", BodyLocator, "typed", 1)>>}

MailOutcomes ==
    {[kind |-> "ok", body |-> ObjectPayload(TRUE, "On it.", <<>>, TRUE, p)] :
        p \in MailPlans}

\* The page either does what it is asked or times out on the selector, and
\* the reload then succeeds.
MailBehaviours ==
    {NoBehaviour,
     [fail_at |-> 1, reason |-> "Timeout 10000ms exceeded.", reload_ok |-> TRUE,
      text |-> ""]}

\* A chat input of this conversation.
MailTurn(u) == turns < MaxMailTurns /\ SubmitInput(u)

NextMail ==
    \/ \E c \in {<<"", "">>, <<"me@gmail.com", "hunter2">>} :
          InitializeAgent(c[1], c[2], "ok")
    \/ \E u \in MailUtterances : MailTurn(u)
    \/ \E o \in MailOutcomes : ReasonerResponds(o)
    \/ \E shot_ok \in BOOLEAN, b \in MailBehaviours : ExecStep(b, shot_ok)
    \/ Sleep
    \/ \E shot_ok \in BOOLEAN : Finish(shot_ok)

SpecMail == Init /\ [][NextMail]_vars

-----------------------------------------------------------------------------
(* Claims *)

\* A turn has started since the agent was created (it may have ended).
TurnSeen == turn_result.kind # "none"
\* The last turn is over.
TurnOver == pc = "none" /\ turn_result.kind \in {"returned", "raised"}
\* The Reasoner has answered in this turn.
Answered == reasoner_calls = 1 /\ pc # "reasoner"
\* Some step of this turn returned failure.
SomeStepFailed == \E i \in 1..Len(executed) : ~executed[i].success
StoredSecrets ==
    IF task_context.email_credentials.present
    THEN {task_context.email_credentials.email, task_context.email_credentials.password}
    ELSE {}

\* C1: in a turn whose plan has a non-empty requires_info, no step is handed
\* to the browser and no page operation is made, whatever steps the plan
\* lists; the turn is over as soon as the plan is read, the state is
\* WaitingForInput, and the returned message is the plan's reply.
C1_MissingInfoBlocksExecution ==
    (Answered /\ intent_data.tag = "object" /\ intent_data.requires_info # <<>>) =>
        /\ executed = <<>>
        /\ browser_ops = <<>>
        /\ pc = "none"
        /\ state = WAITING_FOR_INPUT
        /\ intent_data.has_response =>
              /\ turn_result.kind = "returned"
              /\ turn_result.content = <<intent_data.response>>

\* C1's case: a plan that lists steps and also asks for information was
\* answered with an open page, and the turn returned.
C1_Witness ==
    /\ Answered /\ turn_result.kind = "returned"
    /\ intent_data.requires_info # <<>>
    /\ Len(intent_data.actions) = MaxSteps
    /\ browser.page = "open"

\* C2: a step that returned failure is the last step executed in its turn,
\* the executed steps are the plan's first steps in order, and the reply of
\* the turn holds exactly one failure marker, after the success markers of
\* the steps before it (one each).
C2_FailFast ==
    /\ \A i \in 1..Len(executed) :
          /\ ~executed[i].success => i = Len(executed)
          /\ executed[i].action_type = intent_data.actions[i].action_type
          /\ executed[i].target = intent_data.actions[i].target
    /\ SomeStepFailed => pc \in {"finish", "none"}
    /\ (turn_result.kind = "returned" /\ SomeStepFailed) =>
          LET c == turn_result.content
          IN /\ Count(c, FailMarker) = 1
             /\ Count(c, SuccessMarker) = Len(executed) - 1
             /\ \A i, j \in 1..Len(c) :
                   (c[i] = SuccessMarker /\ c[j] = FailMarker) => i < j

\* C2's case: the first step of a longer plan failed on an open page after a
\* page operation raised, and the turn returned.
C2_Witness ==
    /\ turn_result.kind = "returned"
    /\ Len(intent_data.actions) = MaxSteps
    /\ Len(executed) < Len(intent_data.actions)
    /\ SomeStepFailed
    /\ last_result.behaviour.fail_at > 0

\* C3 (as claimed): when a step failed in a turn, the state is Error once
\* that turn has returned.
C3_ErrorWhenTurnReturns ==
    (TurnOver /\ turn_result.kind = "returned" /\ SomeStepFailed) => state = ERROR

\* C4 (as claimed): no stored credential value is a part of the content of a
\* history entry or of a message sent to the Reasoner.
C4_SecretsStayOut ==
    \A s \in StoredSecrets :
        /\ \A i \in 1..Len(conversation_history) :
              ~Contains(conversation_history[i].content, s)
        /\ \A i \in 1..Len(last_request) : ~Contains(last_request[i].content, s)

\* C5: a turn whose utterance contains "send email" (in any case) while no
\* credentials are stored returns at once with the credentials prompt, in
\* state WaitingForInput, without a request to the Reasoner and without a
\* step or page operation.
C5_NoCredentialsShortCircuit ==
    (TurnSeen /\ HasSendEmail(user_input) /\ ~task_context.email_credentials.present) =>
        /\ pc = "none"
        /\ turn_result.kind = "returned"
        /\ turn_result.content = CredentialsPrompt
        /\ state = WAITING_FOR_INPUT
        /\ reasoner_calls = 0
        /\ last_request = <<>>
        /\ executed = <<>>
        /\ browser_ops = <<>>

\* C5's case: the utterance has the trigger in capitals, nothing is stored,
\* the page is open, and the turn returned.
C5_Witness ==
    /\ turn_result.kind = "returned"
    /\ HasSendEmail(user_input) /\ user_input[1] = "Send"
    /\ ~task_context.email_credentials.present
    /\ browser.page = "open"

\* What C6 calls a payload without the plan structure.
Malformed(p) ==
    \/ p.tag # "object"
    \/ ~p.has_response
    \/ ~p.has_actions
    \/ \E i \in 1..Len(p.actions) : ~p.actions[i].has_type

\* C6 (as claimed): after a malformed payload the turn goes on with the
\* fallback plan and no exception leaves the turn.
C6_MalformedFallsBack ==
    (Answered /\ Malformed(raw_response)) =>
        /\ turn_result.kind # "raised"
        /\ intent_data = FallbackPlan
        /\ executed = <<>>

\* What C7 calls a plan with a step of a kind outside the nine.
HasUnknownKind(p) ==
    \E i \in 1..Len(p.actions) :
        p.actions[i].has_type /\ p.actions[i].action_type \notin ActionTypes

\* C7 (as claimed): no step of a plan with a step of unknown kind reaches the
\* page, the steps before the unknown one included, and the turn ends
\* WaitingForInput. (Stated for payloads that have the plan structure
\* otherwise, so that the unknown kind is all that is wrong with the plan.)
C7_UnknownKindRejected ==
    (Answered /\ ~Malformed(raw_response) /\ HasUnknownKind(intent_data)) =>
        /\ browser_ops = <<>>
        /\ \A i \in 1..Len(executed) : ~executed[i].success
        /\ TurnOver => state = WAITING_FOR_INPUT

\* C8 (as claimed): with credentials stored, every executed step on the
\* password locator has the stored password as its text, whatever the
\* utterance; with nothing stored, it has the plan's text.
C8_PasswordAlwaysSubstituted ==
    \A k \in 1..Len(executed) :
        intent_data.actions[k].target = PasswordLocator =>
            executed[k].text =
                IF task_context.email_credentials.present
                THEN task_context.email_credentials.password
                ELSE intent_data.actions[k].text

\* C8 (amended): an executed step on the password locator has the stored
\* password as its text when credentials are stored and the utterance of
\* the turn contains "send email"; otherwise it has the plan's text.
C8_PasswordSubstitutedInEmailTurns ==
    \A k \in 1..Len(executed) :
        intent_data.actions[k].target = PasswordLocator =>
            executed[k].text =
                IF task_context.email_credentials.present /\ HasSendEmail(user_input)
                THEN task_context.email_credentials.password
                ELSE intent_data.actions[k].text

\* C8's case: a step on the password locator whose plan text was another
\* one was executed with the stored password.
C8_Witness ==
    \E k \in 1..Len(executed) :
        /\ intent_data.actions[k].target = PasswordLocator
        /\ intent_data.actions[k].text # task_context.email_credentials.password
        /\ task_context.email_credentials.present
        /\ executed[k].text = task_context.email_credentials.password
        /\ executed[k].success

\* C9: an executed step whose target is none of the five substituted
\* locators has exactly the text the plan gave it, and that text is no
\* stored credential.
C9_OtherTargetsKeepText ==
    \A k \in 1..Len(executed) :
        intent_data.actions[k].target \notin SensitiveLocators =>
            /\ executed[k].text = intent_data.actions[k].text
            /\ executed[k].text \notin StoredSecrets

\* C9's case: in a "send email" turn with credentials stored, a step on
\* another target was executed with a text of its own.
C9_Witness ==
    \E k \in 1..Len(executed) :
        /\ intent_data.actions[k].target \notin SensitiveLocators
        /\ intent_data.actions[k].text # ""
        /\ task_context.email_credentials.present
        /\ HasSendEmail(user_input)
        /\ executed[k].success

\* The action of the last execute_action call.
LastAction == executed[Len(executed)]

\* C10: when a page operation of a step raised, execute_action made the
\* step's operations up to that one, each once, then one reload and nothing
\* more, and returned failure with "Action failed: <reason>. Page reloaded
\* for retry." if the reload succeeded and "... Could not recover." if not.
C10_OneReloadNoRetry ==
    (last_result.called /\ last_result.behaviour.fail_at > 0) =>
        LET b == last_result.behaviour
            ops == PageOps(LastAction)
        IN /\ browser_ops = SubSeq(ops, 1, b.fail_at) \o <<"reload">>
           /\ Count(browser_ops, "reload") = 1
           /\ ~last_result.success
           /\ ~LastAction.success
           /\ last_result.result =
                 IF b.reload_ok
                 THEN <<"Action failed: ", b.reason, ". Page reloaded for retry.">>
                 ELSE <<"Action failed: ", b.reason, ". Could not recover.">>

\* C10's case: the second operation of a step raised and the reload failed
\* as well.
C10_Witness ==
    /\ last_result.called
    /\ last_result.behaviour.fail_at = 2
    /\ ~last_result.behaviour.reload_ok
    /\ Len(browser_ops) = 3

\* The steps of the plain plan of this turn (none when the payload has no list).
PlanSteps == IF intent_data.has_actions THEN intent_data.actions ELSE <<>>
\* The browser session is active.
SessionActive == browser.is_initialized /\ browser.page = "open"
\* The turn returned after every step of a plan without missing information
\* had been executed with success.
AllStepsSucceeded ==
    /\ TurnOver /\ turn_result.kind = "returned"
    /\ Answered /\ intent_data.tag = "object" /\ intent_data.requires_info = <<>>
    /\ Len(executed) = Len(PlanSteps)
    /\ \A i \in 1..Len(executed) : executed[i].success
\* The reply such a turn is to return: the plan's reply, then one success
\* line per executed step, in order, then the extracted data if any.
ExpectedReply ==
    LET line(k) == <<SuccessMarker, "step", ": ">> \o executed[k].result
        upto[k \in 0..Len(executed)] ==
            IF k = 0 THEN <<intent_data.response>> ELSE upto[k - 1] \o line(k)
    IN upto[Len(executed)] \o
          (IF extracted_data = <<>> THEN <<>>
           ELSE <<ExtractedHeader>> \o Join(extracted_data, "\n"))
\* The reply and the final state of a turn whose steps all succeeded.
RepliesWithSuccessMarkers ==
    /\ turn_result.content = ExpectedReply
    /\ Count(turn_result.content, SuccessMarker) = Len(PlanSteps)
    /\ Count(turn_result.content, FailMarker) = 0
    /\ \A k \in 1..Len(executed) :
          /\ executed[k].action_type = PlanSteps[k].action_type
          /\ executed[k].target = PlanSteps[k].target
    /\ state = IDLE

\* C11 as stated: when the n steps of a plan without missing information all
\* succeed, the reply is the plan's reply followed by n success markers, one
\* per step in the plan's order, and no failure marker, the state ends Idle,
\* and with an active session the returned message carries a snapshot.
C11_SnapshotAlwaysAttached ==
    AllStepsSucceeded =>
        /\ RepliesWithSuccessMarkers
        /\ SessionActive => turn_result.screenshot = "image"

\* C11, amended: ... the state ends Idle, and with an active session a
\* capture was attempted and the returned message carries what the last
\* capture of the turn returned: an image, or nothing when that capture
\* failed.
C11_AllStepsSucceed ==
    AllStepsSucceeded =>
        /\ RepliesWithSuccessMarkers
        /\ SessionActive =>
              /\ captures # <<>>
              /\ turn_result.screenshot = captures[Len(captures)].shot
              /\ turn_result.screenshot \in {"image", ""}

\* C11's case: a plan of two steps ran to its end with both steps successful
\* on an open page, and the message carries an image.
C11_Witness ==
    /\ AllStepsSucceeded
    /\ SessionActive
    /\ Len(executed) = 2
    /\ executed[1].action_type # executed[2].action_type
    /\ turn_result.screenshot = "image"

\* C12: in a turn whose utterance contains "send email" (in any letter
\* case), with credentials stored, when the recipient, the subject or the
\* body cannot be extracted from the utterance, the turn returns at once in
\* WaitingForInput with the format example; the Reasoner is not called and no
\* step is handed to the browser.
C12_MissingDetailsShortCircuit ==
    (TurnSeen /\ HasSendEmail(user_input)
        /\ task_context.email_credentials.present /\ ~DetailsFound(user_input)) =>
        /\ pc = "none"
        /\ state = WAITING_FOR_INPUT
        /\ turn_result.kind = "returned"
        /\ turn_result.content = DetailsPrompt
        /\ reasoner_calls = 0
        /\ last_request = <<>>
        /\ provider = "none"
        /\ executed = <<>>
        /\ browser_ops = <<>>

\* C12's case: with credentials stored and an open page, the user typed
\* "Send Email To a@b.com", which gives no recipient the pattern finds, no
\* subject and no body.
C12_Witness ==
    /\ TurnOver
    /\ user_input = <<"Send", "Email", "To", "a@b.com">>
    /\ task_context.email_credentials.present
    /\ SessionActive
    /\ state = WAITING_FOR_INPUT

\* C13: when the provider call fails (a status other than 200, or an
\* exception of the HTTP call), the turn ends as for the fallback plan: it
\* returns, with no exception, the clarification reply in WaitingForInput,
\* and no step is handed to the browser.
C13_ProviderFailureFallsBack ==
    (TurnSeen /\ provider \in {"http_error", "exception"}) =>
        /\ raw_response \in {TextPayload(ApiErrorText), TextPayload(ApiExceptionText)}
        /\ intent_data.requires_info = <<ClarifyInfo>>
        /\ intent_data.actions = <<>>
        /\ pc = "none"
        /\ turn_result.kind = "returned"
        /\ turn_result.content = <<ClarifyResponse>>
        /\ state = WAITING_FOR_INPUT
        /\ executed = <<>>
        /\ browser_ops = <<>>

\* C13's case: the provider answered with a status other than 200 while the
\* page was open, and the turn is over.
C13_Witness ==
    /\ TurnOver
    /\ provider = "http_error"
    /\ SessionActive
    /\ reasoner_calls = 1

\* The same case for an exception of the HTTP call (a timeout, a refused
\* connection).
C13_WitnessException ==
    /\ TurnOver
    /\ provider = "exception"
    /\ reasoner_calls = 1

\* The history entries of the last request to the Reasoner: what follows the
\* system prompt and the request itself.
Context == SubSeq(last_request, 3, Len(last_request))
\* The stored history as it was before the current utterance was appended.
PriorHistory == SubSeq(conversation_history, 1, Len(conversation_history) - 1)
\* The request of the current turn has just left.
RequestSent == pc = "reasoner" /\ last_request # <<>>

\* C14 as stated: the history context of a request to the Reasoner has at
\* most 5 entries, and they are the most recent prior turns of the
\* conversation (what the history held before the current utterance), in
\* their original order.
C14_ContextIsPriorTurns ==
    RequestSent =>
        /\ Len(Context) <= HistoryWindow
        /\ Context = LastN(PriorHistory, HistoryWindow)

\* C14, amended: the history context of every request has at most 5 entries;
\* they are the last entries of the stored history in their original order,
\* the last of them being the current utterance, which is appended before the
\* request is built; and building the request leaves the stored history
\* whole: it holds what it held before the turn, then the utterance.
C14_ContextIsLastFive ==
    /\ [](last_request # <<>> => Len(Context) <= HistoryWindow)
    /\ [](RequestSent =>
            LET h == conversation_history
                n == IF Len(h) <= HistoryWindow THEN Len(h) ELSE HistoryWindow
            IN /\ Len(Context) = n
               /\ \A i \in 1..n : Context[i] = h[Len(h) - n + i]
               /\ Context[n] = [role |-> "user", content |-> user_input])
    /\ [][(pc = "none" /\ pc' = "reasoner") =>
            conversation_history' =
                Append(conversation_history, [role |-> "user", content |-> user_input'])]_vars

\* C14's case: a request leaves while the history holds seven entries, two
\* more than the window.
C14_Witness ==
    /\ RequestSent
    /\ Len(conversation_history) = 7
    /\ Len(Context) = 5
    /\ Context[1] = conversation_history[3]

\* C15: after every turn that returned a message, whatever its path, the
\* history holds one user entry and one assistant entry per turn, in
\* alternation, and its last two entries are the utterance and the returned
\* response of that turn.
C15_HistoryHoldsBothSides ==
    (TurnOver /\ turn_result.kind = "returned") =>
        LET h == conversation_history
            n == Len(h)
        IN /\ n >= 2 /\ n % 2 = 0
           /\ \A i \in 1..n : h[i].role = IF i % 2 = 1 THEN "user" ELSE "assistant"
           /\ h[n - 1] = [role |-> "user", content |-> user_input]
           /\ h[n] = [role |-> "assistant", content |-> turn_result.content]

\* The state changes the state table allows.
AllowedChanges ==
    {<<IDLE, THINKING>>, <<IDLE, WAITING_FOR_INPUT>>, <<WAITING_FOR_INPUT, IDLE>>,
     <<THINKING, ACTING>>, <<THINKING, WAITING_FOR_INPUT>>, <<ACTING, IDLE>>,
     <<ACTING, ERROR>>, <<ERROR, IDLE>>}
\* A step of a turn of the agent (not the creation of a new agent).
TurnStep == turns' # turns \/ pc # "none"

\* C16: every change of the agent's state made by a turn is one of
\* Idle->Thinking, Idle->WaitingForInput, WaitingForInput->Idle,
\* Thinking->Acting, Thinking->WaitingForInput, Acting->Idle, Acting->Error,
\* Error->Idle; so a turn that follows a WaitingForInput turn does not go
\* from WaitingForInput to Thinking; and Completed is never entered.
C16_OnlyTableTransitions ==
    /\ [](state # COMPLETED)
    /\ [][(TurnStep /\ state' # state) => <<state, state'>> \in AllowedChanges]_vars

\* C17: whenever no turn is in progress the agent's state is Idle,
\* WaitingForInput or Error, and no turn has ended by an exception that left
\* process_user_input.
C17_RestsOutsideTurns ==
    pc = "none" =>
        /\ state \in {IDLE, WAITING_FOR_INPUT, ERROR}
        /\ turn_result.kind # "raised"

\* C18: the steps of a plan are handed to the browser one at a time, in the
\* plan's order: when step k+1 is about to start, steps 1..k have returned
\* success and each of their pacing sleeps is over; while the loop sleeps
\* after step k, k steps have been started, the last returned success, and
\* k-1 sleeps are over; so no step starts before the one before it is over.
C18_StepsInSequence ==
    LET n == Len(executed)
    IN /\ \A k \in 1..n :
             /\ k <= Len(PlanSteps)
             /\ executed[k].action_type = PlanSteps[k].action_type
             /\ executed[k].target = PlanSteps[k].target
       /\ \A k \in 1..(n - 1) : executed[k].success
       /\ Len(slept) <= n
       /\ n > 0 => Len(slept) >= n - 1
       /\ pc = "loop" =>
             /\ n = idx - 1
             /\ Len(slept) = n
             /\ \A k \in 1..n : executed[k].success
       /\ pc = "sleep" =>
             /\ n = idx
             /\ Len(slept) = n - 1
             /\ executed[n].success

\* C18's case: the second step of a plan is about to start; the first one
\* returned success and its pacing sleep is over.
C18_Witness ==
    /\ pc = "loop"
    /\ idx = 2
    /\ Len(executed) = 1
    /\ executed[1].success
    /\ Len(slept) = 1

\* C19: every step that the browser executed with success ran with the
\* delay its plan gives it (1 second when the plan gives none): a wait step
\* suspended the page for that delay, and the pacing sleep after a step
\* lasts that delay.
C19_PlanDelayUsed ==
    /\ \A k \in 1..Len(executed) :
          executed[k].success =>
              /\ executed[k].delay = PlanSteps[k].delay
              /\ executed[k].action_type = "wait" =>
                    WaitTimeout(executed[k]) = PlanSteps[k].delay * 1000
    /\ \A k \in 1..Len(slept) : slept[k] = PlanSteps[k].delay

\* C20: once a switch_frame step to frame F has succeeded, every later
\* click, type, select, extract or scroll step of the same plan that
\* succeeds (up to the next switch_frame) makes its page operations in F, not
\* on the top-level page.
C20_LaterStepsRunInFrame ==
    \A j \in 1..Len(executed) : \A k \in (j + 1)..Len(executed) :
        (/\ executed[j].action_type = "switch_frame"
         /\ executed[j].success
         /\ \A i \in (j + 1)..(k - 1) : executed[i].action_type # "switch_frame"
         /\ executed[k].action_type \in {"click", "type", "select", "extract", "scroll"}
         /\ executed[k].success)
        => executed[k].context = executed[j].target

\* The turn returned a message that carries an image.
SnapshotAttached == TurnOver /\ turn_result.kind = "returned" /\ turn_result.screenshot = "image"

\* C21: when a screenshot step has executed with success and the turn's
\* message carries a snapshot, that snapshot was captured at or after the
\* screenshot step (at that step, after a later step, or at turn end), never
\* after an earlier step only.
C21_SnapshotNotOlderThanStep ==
    SnapshotAttached =>
        \A k \in 1..Len(executed) :
            (executed[k].action_type = "screenshot" /\ executed[k].success) =>
                /\ captures # <<>>
                /\ LET last == captures[Len(captures)]
                   IN last.step = 0 \/ last.step >= k

\* The turn reached the execution phase: the plan was read and asked for no
\* information (line 421 was reached).
ReachedExecution ==
    Answered /\ intent_data.tag = "object" /\ intent_data.requires_info = <<>>
\* The steps after which the loop captured a snapshot, and the final captures.
LoopCaptures == {i \in 1..Len(captures) : captures[i].step > 0}
FinalCaptures == {i \in 1..Len(captures) : captures[i].step = 0}
\* The capture rules, for a turn that is over.
CapturesAsPlanned ==
    /\ \A k \in 1..Len(executed) :
          Cardinality({i \in LoopCaptures : captures[i].step = k}) =
              IF executed[k].success /\ executed[k].action_type \in SnapshotTypes
              THEN 1 ELSE 0
    /\ \A i \in LoopCaptures : captures[i].step <= Len(executed)
    /\ (SessionActive /\ \A i \in LoopCaptures : captures[i].shot # "image") =>
          Cardinality(FinalCaptures) = 1
    /\ ~browser.is_initialized =>
          /\ captures = <<>>
          /\ turn_result.kind = "returned"
          /\ turn_result.content # <<>>

\* C22: in every turn that reached the execution phase and is over, one
\* snapshot was captured after each step of kind navigate, click, type,
\* select or switch_frame that executed with success; if the loop obtained
\* no snapshot and a session is active, exactly one final capture was made;
\* without a session no capture was attempted and the turn returned a reply.
C22_CaptureRules ==
    (pc = "none" /\ TurnSeen /\ ReachedExecution) => CapturesAsPlanned

\* The same rules for the turns that returned a message (those that no
\* exception ended).
CaptureRulesWhenReturned ==
    (TurnOver /\ turn_result.kind = "returned" /\ ReachedExecution) => CapturesAsPlanned

\* C23: with no browser session (no page), every execute_action call
\* returns failure with "Browser not initialized" at once, whatever the kind
\* of the step, with no page operation and no reload; the loop stops there:
\* at most one step of the plan is handed to the browser, no pacing sleep
\* follows, and the turn of a plan with steps returns a failure marker.
C23_NoSessionFailsAtOnce ==
    browser.page = "none" =>
        /\ Len(executed) <= 1
        /\ \A k \in 1..Len(executed) :
              /\ ~executed[k].success
              /\ executed[k].result = <<"Browser not initialized">>
        /\ browser_ops = <<>>
        /\ slept = <<>>
        /\ captures = <<>>
        /\ pc # "sleep"
        /\ pc = "loop" => executed = <<>>
        /\ (TurnOver /\ turn_result.kind = "returned" /\ ReachedExecution
              /\ PlanSteps # <<>>) =>
              /\ Len(executed) = 1
              /\ Count(turn_result.content, FailMarker) = 1
              /\ Count(turn_result.content, SuccessMarker) = 0

\* C23's case: the browser failed to start, the plan had two steps, the
\* first one a switch_frame, and the turn is over.
C23_Witness ==
    /\ browser.page = "none"
    /\ TurnOver
    /\ Len(PlanSteps) = 2
    /\ PlanSteps[1].action_type = "switch_frame"
    /\ Len(executed) = 1

\* C24 as stated: once a key of the task context holds a value, no step of
\* any later turn changes it.
C24_KeysWrittenOnce ==
    [][TurnStep =>
          /\ task_context.email_credentials.present =>
                task_context'.email_credentials = task_context.email_credentials
          /\ task_context.email_details.present =>
                task_context'.email_details = task_context.email_details]_vars

\* C24, amended: the credentials are written when the agent is created and
\* no turn changes them; the email details are written by every turn whose
\* utterance has the trigger, with credentials stored, and yields recipient,
\* subject and body: that turn replaces whatever an earlier turn stored by
\* the details of its own utterance; every other turn leaves them as they are.
C24_DetailsRewrittenByEachEmailTurn ==
    [][TurnStep =>
          /\ task_context'.email_credentials = task_context.email_credentials
          /\ IF /\ pc = "none"
                /\ HasSendEmail(user_input')
                /\ task_context.email_credentials.present
                /\ DetailsFound(user_input')
             THEN task_context'.email_details =
                     [present |-> TRUE,
                      recipient |-> FirstMatch(user_input', "to", Addresses),
                      subject |-> Unquote(FirstMatch(user_input', "subject", Quoted)),
                      body |-> Unquote(FirstMatch(user_input', "body", Quoted))]
             ELSE task_context'.email_details = task_context.email_details]_vars

\* C24's case: two turns asked for an email, and the details stored are
\* those of the second utterance.
C24_Witness ==
    /\ turns = 2
    /\ Len(conversation_history) >= 2
    /\ conversation_history[1].content[4] = "a@b.com"
    /\ user_input[4] = "c@d.org"
    /\ task_context.email_details.present
    /\ task_context.email_details.recipient = "c@d.org"

\* C25: no step of a turn changes the stored credentials: after building,
\* substituting and executing the steps of a plan, and after the turn, the
\* credential record of the task context is the one the turn found.
C25_CredentialsUnchanged ==
    [][TurnStep =>
          task_context'.email_credentials = task_context.email_credentials]_vars

\* C25's case: a turn that asked for an email is over; the stored password
\* was substituted into a step on the password field and typed, and the
\* credentials are still the ones given when the agent was created.
C25_Witness ==
    /\ TurnOver
    /\ HasSendEmail(user_input)
    /\ \E k \in 1..Len(executed) :
          /\ executed[k].target = PasswordLocator
          /\ executed[k].text = "hunter2"
          /\ executed[k].success
    /\ task_context.email_credentials = StoredCredentials("me@gmail.com", "hunter2")

\* The "Clear Browser Data" handler runs cleanup in this step.
CleanupStep == agent_initialized /\ ~agent_initialized' /\ browser.is_initialized
\* Nothing of the session is held: no driver running, no context or page open.
Released(b) == b.playwright # "started" /\ b.context # "open" /\ b.page # "open"

\* C26: the browser session is released on every exit path: whenever the
\* controller is not marked initialized (initialize failed, or cleanup ran)
\* it holds no running driver, no open context and no open page; and once
\* cleanup has returned, whether or not a close raised, the controller is
\* marked not initialized and page, context and driver are closed.
C26_SessionAlwaysReleased ==
    /\ [](~browser.is_initialized => Released(browser))
    /\ [][CleanupStep => (~browser'.is_initialized /\ Released(browser'))]_vars

\* The second half of C26 alone: what holds once cleanup has returned.
CleanupReleases ==
    [][CleanupStep => (~browser'.is_initialized /\ Released(browser'))]_vars

\* The detail of the current utterance that belongs to a field.
CurrentDetail(target) ==
    CASE target = ToLocator -> FirstMatch(user_input, "to", Addresses)
      [] target = SubjectLocator -> Unquote(FirstMatch(user_input, "subject", Quoted))
      [] OTHER -> Unquote(FirstMatch(user_input, "body", Quoted))

\* C27: in any sequence of turns, every step on the recipient, subject or
\* body field that the override block substitutes (the utterance has the
\* trigger and credentials are stored) is executed with the value extracted
\* from the utterance of the current turn, whatever earlier turns stored;
\* and when the loop reaches such a step the email details are there, so
\* their lookup does not raise.
C27_DetailsAreCurrent ==
    (TurnSeen /\ HasSendEmail(user_input) /\ task_context.email_credentials.present) =>
        /\ \A k \in 1..Len(executed) :
              executed[k].target \in {ToLocator, SubjectLocator, BodyLocator} =>
                  /\ DetailsFound(user_input)
                  /\ executed[k].text = CurrentDetail(executed[k].target)
        /\ pc = "loop" =>
              /\ DetailsFound(user_input)
              /\ task_context.email_details.present
              /\ ~SubstituteRaises(BrowserAction(intent_data.actions[idx]),
                                   user_input, task_context)
        /\ turn_result.kind # "raised"

\* C27's case: after a first email to a@b.com, a second turn asked for an
\* email to c@d.org and its three fields were typed.
C27_Witness ==
    /\ turns = 2
    /\ Len(conversation_history) >= 2
    /\ conversation_history[1].content = <<"send", "email", "to", "a@b.com", "subject", "'Meeting'", "body", "'Hi'">>
    /\ user_input[4] = "c@d.org"
    /\ Len(executed) = 3
    /\ executed[1].text = "c@d.org"
    /\ executed[3].text = "Bye"
    /\ executed[3].success

=============================================================================
